---- MODULE Spec2Model ----
(***************************************************************************)
(* Coordination core of counterflux-code-ai:                               *)
(*   - CounterfluxOrchestrator: the sequential (ping-pong) state machine,  *)
(*   - ParralelContextManager: the shared context of the parallel mode,    *)
(*   - AgentSession: the per-role decision policy and tool execution,      *)
(*   - ParralelOrchestrator: the interval-driven parallel coordinator.     *)
(* Each component has its own specification (SpecSeq, SpecCtx, SpecDecide, *)
(* SpecPar, ...); the variables of the other components stay unchanged.    *)
(***************************************************************************)
EXTENDS Integers, Sequences, FiniteSets, TLC

VARIABLES
    state,         \* CounterfluxOrchestrator.state
    context,       \* CounterfluxOrchestrator.context (NullContext when null)
    stack,         \* continuation of the handleEvent call in progress (head runs next)
    others,        \* continuations of earlier handleEvent calls that await a callback
    overlaps,      \* observation: handleEvent calls started while another was suspended
    cause,         \* observation: what made the last change of `state`
    failures,      \* observation: TESTS_FAILED handled since iteration was last set to 0
    notified,      \* observation: severity of the last notifyUser call ("none" before any)
    entered,       \* observation: entries into IMPLEMENTING since the workflow started or continued
    ctx,           \* ParralelContextManager.context
    emitted,       \* observation: the events the last manager operation emitted, in order
    specHistory,   \* observation: the values specStatus has had in this workflow run
    status,        \* ParralelOrchestrator.status
    sessions,      \* ParralelOrchestrator.qaSession / devSession (NullSessions when null)
    isLoopRunning, \* ParralelOrchestrator.isLoopRunning
    timers,        \* ParralelOrchestrator.loopInterval, and the interval timers that are set
    calls,         \* the coordinator's async calls suspended at an await sendMessage
    ticks,         \* the executeLoopIteration calls suspended at an await
    probe,         \* a session, a context and what decideNextAction returned for them
    holder,        \* a context returned by getContext() and what it still shares
    lastFold       \* observation: the arguments of the last updateContextFromAction

seqVars == <<state, context, stack, others, overlaps, cause, failures, notified, entered>>
ctxVars == <<ctx, emitted, specHistory>>
parVars == <<status, sessions, isLoopRunning, timers, calls, ticks>>
vars == <<seqVars, ctxVars, parVars, probe, holder, lastFold>>

\* What the actions of one component leave unchanged.
outsideOrchestrator == <<ctxVars, parVars, probe, holder, lastFold>>
outsideSeq == <<outsideOrchestrator, others, overlaps>>
outsideCtx == <<seqVars, parVars, probe, holder, lastFold>>
outsidePar == <<seqVars, probe, holder, lastFold>>
outsideDecide == <<seqVars, ctxVars, parVars, holder, lastFold>>
outsideSnapshot == <<seqVars, parVars, probe, lastFold>>
outsideFold == <<seqVars, parVars, probe, holder>>

-----------------------------------------------------------------------------
(* Sequential machine: CounterfluxOrchestrator                             *)

IDLE == "IDLE"
SPEC_CREATION == "SPEC_CREATION"
SPEC_FROZEN == "SPEC_FROZEN"
TEST_WRITING == "TEST_WRITING"
IMPLEMENTING == "IMPLEMENTING"
RUNNING_TESTS == "RUNNING_TESTS"
CODE_REVIEW == "CODE_REVIEW"
COMPLETED == "COMPLETED"
PAUSED == "PAUSED"
ERROR == "ERROR"

CounterfluxState ==
    {IDLE, SPEC_CREATION, SPEC_FROZEN, TEST_WRITING, IMPLEMENTING,
     RUNNING_TESTS, CODE_REVIEW, COMPLETED, PAUSED, ERROR}

EventTypes ==
    {"START", "SPEC_CREATED", "SPEC_APPROVED", "TESTS_WRITTEN",
     "IMPLEMENTATION_DONE", "TESTS_PASSED", "TESTS_FAILED", "REVIEW_APPROVED",
     "REVIEW_REJECTED", "MAX_ITERATIONS_REACHED", "USER_CONTINUE", "USER_ABORT",
     "ERROR"}

\* createCounterfluxContext's default maxIterations; start() never overrides it.
DefaultMaxIterations == 10

\* The ordered list of candidate test commands tried by enterRunningTests.
NumTestCommands == 5

\* Bounds of the model.
IterCap == 12          \* iteration is not driven beyond this value
MaxTestFiles == 1      \* context.testFiles holds at most this many paths
EnterCap == 11         \* entries into IMPLEMENTING are counted up to this value
MaxSuspended == 1      \* handleEvent calls suspended behind the one in progress
MaxOverlaps == 1       \* handleEvent calls started while another was suspended

NullContext == [null |-> TRUE]

Desc(text, n) == [text |-> text, n |-> n]

createCounterfluxContext(maxIterations) ==
    [null |-> FALSE,
     specPath |-> "none",
     specContent |-> "none",
     specFrozen |-> FALSE,
     iteration |-> 0,
     maxIterations |-> maxIterations,
     testFiles |-> <<>>,
     lastTestResult |-> "none",
     lastReviewFeedback |-> "none",
     currentPhaseDescription |-> Desc("Initializing Counterflux workflow", 0)]

\* A CounterfluxEvent; the payload fields an event type does not carry are "none".
Event(type) ==
    [type |-> type, specPath |-> "none", testFiles |-> <<>>, result |-> "none",
     feedback |-> "none"]

\* The events a caller can pass to handleEvent.
ExternalEvents ==
    {Event(t) : t \in EventTypes \ {"SPEC_CREATED", "TESTS_WRITTEN", "TESTS_PASSED",
                                    "TESTS_FAILED", "REVIEW_APPROVED", "REVIEW_REJECTED"}}
    \cup {[Event("SPEC_CREATED") EXCEPT !.specPath = "SPEC.md"]}
    \cup {[Event("TESTS_WRITTEN") EXCEPT !.testFiles = fs] : fs \in {<<>>, <<"a.test.ts">>}}
    \cup {[Event("TESTS_PASSED") EXCEPT !.result = "passed"]}
    \cup {[Event("TESTS_FAILED") EXCEPT !.result = "failed"]}
    \cup {[Event("REVIEW_APPROVED") EXCEPT !.feedback = "approved"]}
    \cup {[Event("REVIEW_REJECTED") EXCEPT !.feedback = "rejected"]}

\* Frames of the continuation.  A frame is one step of the running call:
\*   handle      handleEvent(ev); origin is the event the step is attributed to
\*   transition  transitionTo(to, desc)
\*   switchMode, sendMessage, askApproval, readFile, executeCommand
\*               an awaited callback (it resolves or it throws)
\*   catch       the end of a try block (kind says whose)
Frame(op) ==
    [op |-> op, ev |-> Event("START"), origin |-> "none", to |-> IDLE,
     desc |-> Desc("", 0), i |-> 0, kind |-> "none"]

HandleFrame(ev, origin) == [Frame("handle") EXCEPT !.ev = ev, !.origin = origin]
TransitionFrame(to, desc, origin) ==
    [Frame("transition") EXCEPT !.to = to, !.desc = desc, !.origin = origin]
CallbackFrame(op) == Frame(op)
CommandFrame(i) == [Frame("executeCommand") EXCEPT !.i = i]
CatchFrame(kind) == [Frame("catch") EXCEPT !.kind = kind]

Top == Head(stack)
Running(op) == stack # <<>> /\ Top.op = op

\* A catch clause of handleEvent that only logs.
CatchBody_LogsOnly(kind, msg) ==
    CASE kind = "runTests" -> <<HandleFrame(Event("ERROR"), "ERROR")>>
      [] OTHER -> <<>>

\* What a throw does to the continuation: frames are dropped up to the nearest
\* catch, which is replaced by the body of its catch clause.
CatchBody(kind, msg) ==
    CASE kind = "handleEvent" ->
            <<TransitionFrame(ERROR, Desc("Error: " \o msg, 0), "exception")>>
      [] kind = "runTests" -> <<HandleFrame(Event("ERROR"), "ERROR")>>
      [] OTHER -> <<>>

RECURSIVE Unwind(_, _)
Unwind(s, msg) ==
    IF s = <<>> THEN <<>>
    ELSE IF Head(s).op = "catch" THEN CatchBody(Head(s).kind, msg) \o Tail(s)
    ELSE Unwind(Tail(s), msg)

\* The body of handleEvent's try block replaces the handle frame.
Continue(frames) == stack' = frames \o <<CatchFrame("handleEvent")>> \o Tail(stack)

\* A CounterfluxOrchestrator as its constructor leaves it.
NewOrchestrator ==
    /\ state = IDLE
    /\ context = NullContext
    /\ stack = <<>>
    /\ others = <<>>
    /\ overlaps = 0
    /\ cause = [from |-> IDLE, on |-> "none", to |-> IDLE]
    /\ failures = 0
    /\ notified = "none"
    /\ entered = 0

\* start(prompt, workspacePath)
start ==
    /\ stack = <<>>
    /\ others = <<>>
    /\ context' = createCounterfluxContext(DefaultMaxIterations)
    /\ failures' = 0
    /\ entered' = 0
    /\ stack' = <<HandleFrame(Event("START"), "START")>>
    /\ UNCHANGED <<state, cause, notified>>
    /\ UNCHANGED outsideSeq

\* handleEvent(event), called by the embedding application while no call is
\* in progress or suspended
handleEvent ==
    /\ stack = <<>>
    /\ others = <<>>
    /\ \E ev \in ExternalEvents : stack' = <<HandleFrame(ev, ev.type)>>
    /\ UNCHANGED <<state, context, cause, failures, notified, entered>>
    /\ UNCHANGED outsideSeq

\* abort()
abort ==
    /\ stack = <<>>
    /\ others = <<>>
    /\ stack' = <<HandleFrame(Event("USER_ABORT"), "USER_ABORT")>>
    /\ UNCHANGED <<state, context, cause, failures, notified, entered>>
    /\ UNCHANGED outsideSeq

\* reset()
reset ==
    /\ stack = <<>>
    /\ others = <<>>
    /\ state' = IDLE
    /\ context' = NullContext
    /\ cause' = [from |-> state, on |-> "reset", to |-> IDLE]
    /\ failures' = 0
    /\ entered' = 0
    /\ UNCHANGED <<stack, notified>>
    /\ UNCHANGED outsideSeq

handleIdleState ==
    /\ Running("handle") /\ state = IDLE
    /\ Continue(IF Top.ev.type = "START"
                THEN <<TransitionFrame(SPEC_CREATION,
                                       Desc("Creating specification document...", 0),
                                       Top.origin)>>
                ELSE <<>>)
    /\ entered' = IF Top.ev.type = "START" THEN 0 ELSE entered
    /\ UNCHANGED <<state, context, cause, failures, notified>>
    /\ UNCHANGED outsideSeq

handleSpecCreationState ==
    /\ Running("handle") /\ state = SPEC_CREATION
    /\ IF Top.ev.type = "SPEC_CREATED" /\ context # NullContext
       THEN /\ context' = [context EXCEPT !.specPath = Top.ev.specPath]
            /\ Continue(<<[CallbackFrame("askApproval") EXCEPT !.origin = Top.origin]>>)
       ELSE /\ UNCHANGED context
            /\ Continue(IF Top.ev.type = "USER_ABORT"
                        THEN <<TransitionFrame(IDLE, Desc("Workflow aborted by user", 0),
                                               Top.origin)>>
                        ELSE <<>>)
    /\ UNCHANGED <<state, cause, failures, notified, entered>>
    /\ UNCHANGED outsideSeq

\* The rest of handleSpecCreationState, once askApproval has settled; with the
\* context reset to null meanwhile, `this.context.specFrozen = true` throws.
askApproval ==
    /\ Running("askApproval")
    /\ \E outcome \in {"approved", "declined", "throws"} :
        CASE outcome = "approved" /\ context = NullContext ->
                /\ stack' = Unwind(Tail(stack), "TypeError")
                /\ UNCHANGED context
          [] outcome = "approved" /\ context # NullContext ->
                /\ context' = [context EXCEPT !.specFrozen = TRUE]
                /\ stack' = <<TransitionFrame(SPEC_FROZEN,
                                              Desc("Spec frozen, ready for test writing", 0),
                                              Top.origin),
                              HandleFrame(Event("SPEC_APPROVED"), Top.origin)>>
                            \o Tail(stack)
          [] outcome = "declined" ->
                /\ stack' = Tail(stack)
                /\ UNCHANGED context
          [] OTHER ->
                /\ stack' = Unwind(Tail(stack), "askApproval failed")
                /\ UNCHANGED context
    /\ UNCHANGED <<state, cause, failures, notified, entered>>
    /\ UNCHANGED outsideSeq

handleSpecFrozenState ==
    /\ Running("handle") /\ state = SPEC_FROZEN
    /\ Continue(IF Top.ev.type = "SPEC_APPROVED"
                THEN <<TransitionFrame(TEST_WRITING, Desc("Writing failing tests...", 0),
                                       Top.origin)>>
                ELSE <<>>)
    /\ UNCHANGED <<state, context, cause, failures, notified, entered>>
    /\ UNCHANGED outsideSeq

handleTestWritingState ==
    /\ Running("handle") /\ state = TEST_WRITING
    /\ IF Top.ev.type = "TESTS_WRITTEN" /\ context # NullContext
       THEN /\ Len(context.testFiles) + Len(Top.ev.testFiles) <= MaxTestFiles
            /\ context' = [context EXCEPT !.testFiles = @ \o Top.ev.testFiles]
            /\ Continue(<<TransitionFrame(IMPLEMENTING,
                                          Desc("Implementing code to pass tests...", 0),
                                          Top.origin)>>)
       ELSE /\ UNCHANGED context
            /\ Continue(<<>>)
    /\ UNCHANGED <<state, cause, failures, notified, entered>>
    /\ UNCHANGED outsideSeq

handleImplementingState ==
    /\ Running("handle") /\ state = IMPLEMENTING
    /\ Continue(IF Top.ev.type = "IMPLEMENTATION_DONE"
                THEN <<TransitionFrame(RUNNING_TESTS, Desc("Running test suite...", 0),
                                       Top.origin)>>
                ELSE <<>>)
    /\ UNCHANGED <<state, context, cause, failures, notified, entered>>
    /\ UNCHANGED outsideSeq

\* AfterFailedTests with the comparison of handleRunningTestsState off by one.
AfterFailedTests_StrictlyGreater(iteration, maxIterations, origin) ==
    IF iteration > maxIterations
    THEN <<HandleFrame(Event("MAX_ITERATIONS_REACHED"), origin)>>
    ELSE <<TransitionFrame(IMPLEMENTING,
                           Desc("Tests failed. Implementing fixes...", iteration),
                           origin)>>

\* The branch of handleRunningTestsState taken after iteration++.
AfterFailedTests(iteration, maxIterations, origin) ==
    IF iteration >= maxIterations
    THEN <<HandleFrame(Event("MAX_ITERATIONS_REACHED"), origin)>>
    ELSE <<TransitionFrame(IMPLEMENTING,
                           Desc("Tests failed. Implementing fixes...", iteration),
                           origin)>>

handleRunningTestsState ==
    /\ Running("handle") /\ state = RUNNING_TESTS
    /\ CASE context = NullContext ->
                /\ Continue(<<>>)
                /\ UNCHANGED <<context, failures>>
         [] context # NullContext /\ Top.ev.type = "TESTS_PASSED" ->
                /\ context' = [context EXCEPT !.lastTestResult = Top.ev.result]
                /\ Continue(<<TransitionFrame(CODE_REVIEW,
                        Desc("All tests passed! Reviewing implementation...", 0),
                        Top.origin)>>)
                /\ UNCHANGED failures
         [] context # NullContext /\ Top.ev.type = "TESTS_FAILED" ->
                /\ context.iteration < IterCap
                /\ context' = [context EXCEPT !.lastTestResult = Top.ev.result,
                                              !.iteration = @ + 1]
                /\ failures' = failures + 1
                /\ Continue(AfterFailedTests(context.iteration + 1,
                                             context.maxIterations, Top.origin))
         [] context # NullContext /\ Top.ev.type = "MAX_ITERATIONS_REACHED" ->
                /\ Continue(<<TransitionFrame(PAUSED,
                        Desc("Maximum iterations reached. Waiting for user approval to continue.", 0),
                        Top.origin)>>)
                /\ UNCHANGED <<context, failures>>
         [] OTHER ->
                /\ Continue(<<>>)
                /\ UNCHANGED <<context, failures>>
    /\ UNCHANGED <<state, cause, notified, entered>>
    /\ UNCHANGED outsideSeq

handleCodeReviewState ==
    /\ Running("handle") /\ state = CODE_REVIEW
    /\ CASE context = NullContext ->
                /\ Continue(<<>>)
                /\ UNCHANGED context
         [] context # NullContext /\ Top.ev.type = "REVIEW_APPROVED" ->
                /\ context' = [context EXCEPT !.lastReviewFeedback = Top.ev.feedback]
                /\ Continue(<<TransitionFrame(COMPLETED, Desc("Code review passed!", 0),
                                              Top.origin)>>)
         [] context # NullContext /\ Top.ev.type = "REVIEW_REJECTED" ->
                /\ context' = [context EXCEPT !.lastReviewFeedback = Top.ev.feedback]
                /\ Continue(<<TransitionFrame(TEST_WRITING,
                        Desc("Code review found issues. Writing additional tests...", 0),
                        Top.origin)>>)
         [] OTHER ->
                /\ Continue(<<>>)
                /\ UNCHANGED context
    /\ UNCHANGED <<state, cause, failures, notified, entered>>
    /\ UNCHANGED outsideSeq

handlePausedState ==
    /\ Running("handle") /\ state = PAUSED
    /\ IF Top.ev.type = "USER_CONTINUE" /\ context # NullContext
       THEN /\ context' = [context EXCEPT !.iteration = 0]
            /\ failures' = 0
            /\ entered' = 0
            /\ Continue(<<TransitionFrame(IMPLEMENTING,
                                          Desc("Continuing implementation...", 0),
                                          Top.origin)>>)
       ELSE /\ UNCHANGED <<context, failures, entered>>
            /\ Continue(IF Top.ev.type = "USER_ABORT"
                        THEN <<TransitionFrame(IDLE, Desc("Workflow aborted by user", 0),
                                               Top.origin)>>
                        ELSE <<>>)
    /\ UNCHANGED <<state, cause, notified>>
    /\ UNCHANGED outsideSeq

\* A terminal state that restarts on START.
handleTerminalState_Restarts ==
    /\ Running("handle") /\ state \in {COMPLETED, ERROR}
    /\ Continue(IF Top.ev.type = "START"
                THEN <<TransitionFrame(SPEC_CREATION,
                                       Desc("Creating specification document...", 0),
                                       Top.origin)>>
                ELSE <<>>)
    /\ UNCHANGED <<state, context, cause, failures, notified, entered>>
    /\ UNCHANGED outsideSeq

\* COMPLETED and ERROR: handleEvent's switch does nothing.
handleTerminalState ==
    /\ Running("handle") /\ state \in {COMPLETED, ERROR}
    /\ Continue(<<>>)
    /\ UNCHANGED <<state, context, cause, failures, notified, entered>>
    /\ UNCHANGED outsideSeq

\* The entry action of a state, as the frames it still has to run.
executeStateEntry(s) ==
    CASE s \in {SPEC_CREATION, IMPLEMENTING, CODE_REVIEW} ->
            <<CallbackFrame("switchMode"), CallbackFrame("sendMessage")>>
      [] s = TEST_WRITING ->
            <<CallbackFrame("switchMode"), CallbackFrame("readFile"),
              CallbackFrame("sendMessage")>>
      [] s = RUNNING_TESTS -> <<CommandFrame(1), CatchFrame("runTests")>>
      [] OTHER -> <<>>

\* notifyUser calls made synchronously by executeStateEntry.
EntryNotification(s, old) ==
    CASE s = COMPLETED -> "info"
      [] s = ERROR -> "error"
      [] OTHER -> old

transitionTo ==
    /\ Running("transition")
    /\ Top.to = IMPLEMENTING => entered < EnterCap
    /\ entered' = IF Top.to = IMPLEMENTING THEN entered + 1 ELSE entered
    /\ state' = Top.to
    /\ cause' = [from |-> state, on |-> Top.origin, to |-> Top.to]
    /\ IF context # NullContext
       THEN /\ context' = [context EXCEPT !.currentPhaseDescription = Top.desc]
            /\ stack' = executeStateEntry(Top.to) \o Tail(stack)
            /\ notified' = EntryNotification(Top.to, notified)
       ELSE /\ stack' = Tail(stack)
            /\ UNCHANGED <<context, notified>>
    /\ UNCHANGED failures
    /\ UNCHANGED outsideSeq

\* switchMode settles; the entry action goes on to read this.context, which
\* throws when the context was reset to null meanwhile.
switchMode ==
    /\ Running("switchMode")
    /\ \E throws \in BOOLEAN :
        stack' = IF throws \/ context = NullContext
                 THEN Unwind(Tail(stack), "switchMode failed")
                 ELSE Tail(stack)
    /\ UNCHANGED <<state, context, cause, failures, notified, entered>>
    /\ UNCHANGED outsideSeq

sendMessage ==
    /\ Running("sendMessage")
    /\ \E throws \in BOOLEAN :
        stack' = IF throws THEN Unwind(Tail(stack), "sendMessage failed") ELSE Tail(stack)
    /\ UNCHANGED <<state, context, cause, failures, notified, entered>>
    /\ UNCHANGED outsideSeq

\* enterTestWriting's read of the spec file, skipped when no specPath is set; a
\* throw of readFile is caught on the spot and only logged.
readFile ==
    /\ Running("readFile")
    /\ stack' = Tail(stack)
    /\ IF context.specPath = "none"
       THEN UNCHANGED context
       ELSE \E throws \in BOOLEAN :
            context' = IF throws THEN context
                       ELSE [context EXCEPT !.specContent = "spec text"]
    /\ UNCHANGED <<state, cause, failures, notified, entered>>
    /\ UNCHANGED outsideSeq

\* One round of enterRunningTests' loop over the candidate commands, and what
\* follows the loop once a command has run or the list is exhausted.
executeCommand ==
    /\ Running("executeCommand")
    /\ \E outcome \in {"exit0", "exit1", "throws"} :
        stack' =
            (CASE outcome = "exit0" ->
                    <<HandleFrame([Event("TESTS_PASSED") EXCEPT !.result = "passed"],
                                  "TESTS_PASSED")>>
               [] outcome = "exit1" ->
                    <<HandleFrame([Event("TESTS_FAILED") EXCEPT !.result = "failed"],
                                  "TESTS_FAILED")>>
               [] OTHER ->
                    IF Top.i < NumTestCommands
                    THEN <<CommandFrame(Top.i + 1)>>
                    ELSE <<HandleFrame(Event("ERROR"), "ERROR")>>)
            \o Tail(stack)
    /\ UNCHANGED <<state, context, cause, failures, notified, entered>>
    /\ UNCHANGED outsideSeq

\* A try block ends without a throw.
endTry ==
    /\ Running("catch")
    /\ stack' = Tail(stack)
    /\ UNCHANGED <<state, context, cause, failures, notified, entered>>
    /\ UNCHANGED outsideSeq

\* The awaited callbacks during which another call is taken to start; the
\* call is suspended while the one at the head of its continuation is in
\* flight.
AwaitedCallbacks == {"askApproval", "switchMode", "sendMessage", "executeCommand"}

Suspended(frames) == frames # <<>> /\ Head(frames).op \in AwaitedCallbacks

\* handleEvent(event), called while the call in progress awaits a callback:
\* nothing in handleEvent waits for the earlier call.
handleEventDuringAwait ==
    /\ Suspended(stack)
    /\ Len(others) < MaxSuspended
    /\ overlaps < MaxOverlaps
    /\ overlaps' = overlaps + 1
    /\ \E ev \in ExternalEvents : stack' = <<HandleFrame(ev, ev.type)>>
    /\ others' = Append(others, stack)
    /\ UNCHANGED <<state, context, cause, failures, notified, entered>>
    /\ UNCHANGED outsideOrchestrator

\* The callback an earlier call awaits settles once the later call has ended
\* or awaits a callback itself: the earlier call is the one that runs next.
resumeSuspended ==
    /\ others # <<>>
    /\ stack # <<>> => Suspended(stack)
    /\ stack' = Head(others)
    /\ others' = IF stack = <<>> THEN Tail(others) ELSE Append(Tail(others), stack)
    /\ UNCHANGED overlaps
    /\ UNCHANGED <<state, context, cause, failures, notified, entered>>
    /\ UNCHANGED outsideOrchestrator

NextSeq ==
    \/ start \/ handleEvent \/ abort \/ reset
    \/ handleIdleState \/ handleSpecCreationState \/ askApproval
    \/ handleSpecFrozenState \/ handleTestWritingState \/ handleImplementingState
    \/ handleRunningTestsState \/ handleCodeReviewState \/ handlePausedState
    \/ handleTerminalState
    \/ transitionTo \/ switchMode \/ sendMessage \/ readFile \/ executeCommand
    \/ endTry


-----------------------------------------------------------------------------
(* Properties of the sequential machine                                    *)

\* The transition table: <<state, event, next state>>.
TransitionTable ==
    {<<IDLE, "START", SPEC_CREATION>>,
     <<SPEC_CREATION, "SPEC_CREATED", SPEC_FROZEN>>,
     <<SPEC_FROZEN, "SPEC_CREATED", TEST_WRITING>>,
     <<SPEC_CREATION, "USER_ABORT", IDLE>>,
     <<TEST_WRITING, "TESTS_WRITTEN", IMPLEMENTING>>,
     <<IMPLEMENTING, "IMPLEMENTATION_DONE", RUNNING_TESTS>>,
     <<RUNNING_TESTS, "TESTS_PASSED", CODE_REVIEW>>,
     <<RUNNING_TESTS, "TESTS_FAILED", IMPLEMENTING>>,
     <<RUNNING_TESTS, "TESTS_FAILED", PAUSED>>,
     <<CODE_REVIEW, "REVIEW_APPROVED", COMPLETED>>,
     <<CODE_REVIEW, "REVIEW_REJECTED", TEST_WRITING>>,
     <<PAUSED, "USER_CONTINUE", IMPLEMENTING>>,
     <<PAUSED, "USER_ABORT", IDLE>>}
    \cup {<<s, "exception", ERROR>> : s \in CounterfluxState}

\* C1: every change of state made while handling events is a row of the
\* transition table (reset() is not an event and is left out).
C1_TransitionsFollowTable ==
    [][(state' # state /\ cause'.on # "reset")
       => <<state, cause'.on, state'>> \in TransitionTable]_vars

\* C2: the k-th TESTS_FAILED handled since iteration was 0 sends the machine from
\* RUNNING_TESTS back to IMPLEMENTING when k < maxIterations and to PAUSED
\* otherwise, so the maxIterations-th failure pauses.
C2_SafetyValve ==
    [][(state = RUNNING_TESTS /\ state' # state /\ cause'.on = "TESTS_FAILED")
       => /\ context.maxIterations = DefaultMaxIterations
          /\ IF failures < context.maxIterations
             THEN state' = IMPLEMENTING
             ELSE state' = PAUSED]_vars

\* C2 witness: the machine rests in PAUSED after exactly maxIterations failures.
C2_Witness ==
    /\ state = PAUSED
    /\ stack = <<>>
    /\ cause = [from |-> RUNNING_TESTS, on |-> "TESTS_FAILED", to |-> PAUSED]
    /\ failures = DefaultMaxIterations

TerminalStates == {COMPLETED, ERROR}

\* The dispatch of the event on top of the stack goes on to transitionTo(to).
Dispatches(to) ==
    /\ stack' # <<>>
    /\ Head(stack').op = "transition"
    /\ Head(stack').to = to

\* C11: with iteration >= maxIterations the machine is never in IMPLEMENTING
\* (iteration changes only in RUNNING_TESTS and PAUSED, so this is "never
\* entered"), and whenever no call is running it is in PAUSED, IDLE or ERROR.
C11_IterationBounded ==
    (context # NullContext /\ context.iteration >= context.maxIterations)
    => /\ state # IMPLEMENTING
       /\ stack = <<>> => state \in {PAUSED, IDLE, ERROR}

\* C12: in COMPLETED or ERROR no step other than reset() changes the state, no
\* step of a handleEvent call changes the context (start() replaces it before
\* it calls handleEvent) or notifies the user, and no entry action is left to
\* run.
C12_TerminalIsFinal ==
    [][(state \in TerminalStates /\ ~reset)
       => /\ state' = state
          /\ ~start => context' = context
          /\ notified' = notified
          /\ \A k \in 1..Len(stack') : stack'[k].op \in {"handle", "catch"}]_vars

\* C12 witness: handleEvent(START) has been called on a COMPLETED machine and
\* is about to run its switch.
C12_Witness ==
    /\ state = COMPLETED
    /\ Running("handle")
    /\ Top.ev.type = "START"
    /\ context # NullContext

\* C13: an ERROR event handled in a non-terminal state is dispatched to
\* transitionTo(ERROR).
C13_ErrorEventMovesToError ==
    [][(Running("handle") /\ Top.ev.type = "ERROR" /\ state \notin TerminalStates)
       => Dispatches(ERROR)]_vars

\* C14: the ERROR event that enterRunningTests raises when none of the
\* candidate commands executed (the only handleEvent call nested in a catch
\* frame of runTests with that event) is dispatched to transitionTo(ERROR),
\* whose entry action notifies the user.
C14_NoTestCommandIsAnError ==
    [][(Running("handle") /\ Top.ev.type = "ERROR" /\ state = RUNNING_TESTS
        /\ Len(stack) > 1 /\ stack[2].op = "catch" /\ stack[2].kind = "runTests")
       => Dispatches(ERROR)]_vars

\* Messages of the exceptions the callbacks throw.
CallbackFailures == {"switchMode failed", "sendMessage failed", "askApproval failed"}

\* C15: a throw of switchMode, sendMessage or askApproval is caught by
\* handleEvent (the continuation goes on with transitionTo(ERROR, "Error: " +
\* message)); that transition sets the state to ERROR and records the message
\* as the phase description, and only ends of try blocks are left to run, so
\* the call returns in ERROR.
C15_CallbackThrowIsCaught ==
    [][/\ \A msg \in CallbackFailures :
            ((switchMode \/ sendMessage \/ askApproval)
             /\ stack' = Unwind(Tail(stack), msg))
            => /\ stack' # <<>>
               /\ Head(stack') =
                    TransitionFrame(ERROR, Desc("Error: " \o msg, 0), "exception")
       /\ (transitionTo /\ Top.origin = "exception")
            => /\ state' = ERROR
               /\ context' # NullContext
               /\ context'.currentPhaseDescription = Top.desc
               /\ Top.desc.text \in {"Error: " \o msg : msg \in CallbackFailures}
               /\ \A k \in 1..Len(stack') : stack'[k].op = "catch"]_vars

\* C15 witness: handleEvent has returned after askApproval threw.
C15_Witness ==
    /\ stack = <<>>
    /\ state = ERROR
    /\ cause = [from |-> SPEC_CREATION, on |-> "exception", to |-> ERROR]
    /\ context # NullContext
    /\ context.currentPhaseDescription = Desc("Error: askApproval failed", 0)
    /\ notified = "error"

\* C16: the USER_ABORT event of abort(), handled in any of the listed
\* non-terminal states, is dispatched to transitionTo(IDLE).
C16_AbortLeavesWorkflow ==
    [][(Running("handle") /\ Top.ev.type = "USER_ABORT"
        /\ state \in {SPEC_CREATION, TEST_WRITING, IMPLEMENTING, RUNNING_TESTS,
                      CODE_REVIEW, PAUSED})
       => Dispatches(IDLE)]_vars

\* The mode an entry action switches to: enterSpecCreation, enterTestWriting
\* and enterCodeReview to QA, enterImplementing to Dev; "none" where the entry
\* action switches to no mode.
entryMode(s) ==
    CASE s \in {SPEC_CREATION, TEST_WRITING, CODE_REVIEW} -> "counterflux-qa"
      [] s = IMPLEMENTING -> "counterflux-dev"
      [] OTHER -> "none"

\* The frame is a call of switchMode or of sendMessage.
IsDispatch(frame) == frame.op \in {"switchMode", "sendMessage"}

\* C28: a transition into a non-terminal state leaves an entry action to run
\* that calls switchMode and then sendMessage, once each, and the mode is QA's
\* or Dev's.
C28_EntrySendsInstruction ==
    [][(transitionTo /\ Top.to \notin TerminalStates)
       => LET entry == SubSeq(stack', 1, Len(stack') - Len(Tail(stack))) IN
          /\ SelectSeq(entry, IsDispatch)
                = <<CallbackFrame("switchMode"), CallbackFrame("sendMessage")>>
          /\ entryMode(Top.to) \in {"counterflux-qa", "counterflux-dev"}]_vars

\* C36: since the workflow was started, and since the last USER_CONTINUE if
\* there was one, IMPLEMENTING has been entered at most maxIterations times.
C36_ImplementingEntriesBounded ==
    context # NullContext => entered <= context.maxIterations

\* No call of handleEvent is in progress.
AtRest == stack = <<>>

\* C38: the machine never rests in SPEC_FROZEN.  When askApproval settles, an
\* approval goes on to transitionTo(SPEC_FROZEN) followed by the SPEC_APPROVED
\* event, a refusal leaves the machine in SPEC_CREATION with specFrozen false;
\* and the step that handles an event in SPEC_FROZEN handles SPEC_APPROVED
\* and goes on to TEST_WRITING.
C38_SpecFrozenIsTransient ==
    [][/\ AtRest' => state' # SPEC_FROZEN
       /\ (askApproval /\ stack' = Tail(stack))
          => (state' = SPEC_CREATION /\ ~context'.specFrozen)
       /\ (askApproval /\ context'.specFrozen /\ ~context.specFrozen)
          => (Dispatches(SPEC_FROZEN) /\ stack'[2].op = "handle"
              /\ stack'[2].ev.type = "SPEC_APPROVED")
       /\ (handleSpecFrozenState /\ Len(stack) > 1)
          => Dispatches(TEST_WRITING)]_vars

\* C39: in TEST_WRITING, IMPLEMENTING, RUNNING_TESTS, CODE_REVIEW, PAUSED and
\* COMPLETED the context exists and its specFrozen is true.
C39_WorkOnlyOnFrozenSpec ==
    state \in {TEST_WRITING, IMPLEMENTING, RUNNING_TESTS, CODE_REVIEW, PAUSED, COMPLETED}
    => (context # NullContext /\ context.specFrozen)

\* An instruction is being dispatched by the call: its sendMessage is in flight.
Dispatching(frames) == frames # <<>> /\ Head(frames).op = "sendMessage"

\* C37: with handleEvent calls that overlap, a change of state out of IDLE,
\* COMPLETED or ERROR is still a row of the transition table, and no two
\* calls are dispatching an instruction at the same time.
C37_OverlapKeepsTable ==
    /\ [][(state \in {IDLE, COMPLETED, ERROR} /\ state' # state
           /\ cause'.on # "reset")
          => <<state, cause'.on, state'>> \in TransitionTable]_vars
    /\ [](\A i \in 1..Len(others) : ~(Dispatching(stack) /\ Dispatching(others[i])))

-----------------------------------------------------------------------------
(* Shared context: ParralelContextManager                                  *)

Roles == {"qa", "dev"}
SpecStatus == {"draft", "frozen", "locked"}

\* Bounds of the model.
MaxResults == 1        \* testResults holds at most this many entries
CtxMaxIterations == 2  \* a manager is constructed with maxIterations in 1..this
IterOver == 1          \* incrementIteration is called up to this far past maxIterations

\* Values the callers pass in.  null is "null", undefined is "none"; "" is the
\* empty string (falsy in the code's tests, like null).
SpecContents == {"", "spec text"}
SpecPaths == {"specs/SPEC.md"}
CodeFiles == {"a.ts"}
TestFiles == {"a.test.ts"}

createParralelContext(maxIterations) ==
    [specContent |-> "null",
     specPath |-> "null",
     specStatus |-> "draft",
     testResults |-> <<>>,
     implementationStatus |->
        [filesCreated |-> <<>>, filesModified |-> <<>>, testsCreated |-> <<>>,
         lastActivity |-> "null"],
     isWorkflowActive |-> FALSE,
     iteration |-> 0,
     maxIterations |-> maxIterations]

\* Array.prototype.includes
Includes(arr, x) == \E i \in 1..Len(arr) : arr[i] = x

\* Each manager operation is the context it leaves behind and the events it
\* emits, in order.  "state:changed" carries getContext().
Done(c, events) == [context |-> c, events |-> events]

\* updateSpec(content, status?)
\* updateSpec whose status defaults to draft
updateSpec_DraftByDefault(c, content, newStatus) ==
    Done([c EXCEPT !.specContent = content,
                   !.specStatus = IF newStatus # "none" THEN newStatus ELSE "draft"],
         <<"spec:updated", "state:changed">>)

updateSpec(c, content, newStatus) ==
    Done([c EXCEPT !.specContent = content,
                   !.specStatus = IF newStatus # "none" THEN newStatus ELSE @],
         <<"spec:updated", "state:changed">>)

setSpecPath(c, path) == Done([c EXCEPT !.specPath = path], <<"state:changed">>)

freezeSpec(c) == Done([c EXCEPT !.specStatus = "frozen"], <<"spec:frozen", "state:changed">>)

lockSpec(c) == Done([c EXCEPT !.specStatus = "locked"], <<"state:changed">>)

addTestResult(c, result) ==
    Done([c EXCEPT !.testResults = Append(@, result)],
         <<"test:completed", "state:changed">>)

\* getLastTestResult(); "null" when there is none
getLastTestResult(c) ==
    IF Len(c.testResults) > 0 THEN c.testResults[Len(c.testResults)] ELSE "null"

\* A field of a Partial<ImplementationStatus>: given with a value, or left out.
Given(v) == [given |-> TRUE, value |-> v]
NotGiven == [given |-> FALSE, value |-> <<>>]

\* updateImplementation(updates, triggeredBy)
updateImplementation(c, updates, triggeredBy) ==
    Done([c EXCEPT !.implementationStatus =
            [filesCreated |-> IF updates.filesCreated.given
                              THEN updates.filesCreated.value ELSE @.filesCreated,
             filesModified |-> IF updates.filesModified.given
                               THEN updates.filesModified.value ELSE @.filesModified,
             testsCreated |-> IF updates.testsCreated.given
                              THEN updates.testsCreated.value ELSE @.testsCreated,
             lastActivity |-> triggeredBy]],
         <<"implementation:updated", "state:changed">>)

\* addCreatedFile without the test on includes
addCreatedFile_Always(c, filePath) ==
    Done([c EXCEPT !.implementationStatus.filesCreated = Append(@, filePath)],
         <<"state:changed">>)

addCreatedFile(c, filePath) ==
    IF ~Includes(c.implementationStatus.filesCreated, filePath)
    THEN Done([c EXCEPT !.implementationStatus.filesCreated = Append(@, filePath)],
              <<"state:changed">>)
    ELSE Done(c, <<>>)

addTestFile(c, filePath) ==
    IF ~Includes(c.implementationStatus.testsCreated, filePath)
    THEN Done([c EXCEPT !.implementationStatus.testsCreated = Append(@, filePath)],
              <<"state:changed">>)
    ELSE Done(c, <<>>)

\* incrementIteration that pauses only past maxIterations
incrementIteration_PausesPast(c) ==
    Done([c EXCEPT !.iteration = @ + 1],
         IF c.iteration + 1 > c.maxIterations
         THEN <<"workflow:paused", "state:changed">>
         ELSE <<"state:changed">>)

incrementIteration(c) ==
    Done([c EXCEPT !.iteration = @ + 1],
         IF c.iteration + 1 >= c.maxIterations
         THEN <<"workflow:paused", "state:changed">>
         ELSE <<"state:changed">>)

isMaxIterationsReached(c) == c.iteration >= c.maxIterations

startWorkflow(c) == Done([c EXCEPT !.isWorkflowActive = TRUE], <<"state:changed">>)

pauseWorkflow(c) ==
    Done([c EXCEPT !.isWorkflowActive = FALSE], <<"workflow:paused", "state:changed">>)

resumeWorkflow(c) == Done([c EXCEPT !.isWorkflowActive = TRUE], <<"state:changed">>)

completeWorkflow(c) ==
    Done([c EXCEPT !.isWorkflowActive = FALSE], <<"workflow:completed", "state:changed">>)

resetContext(c) == Done(createParralelContext(c.maxIterations), <<"state:changed">>)

\* The test results and partial updates a caller of the manager passes in.
TestResultOf(passed, role) ==
    [passed |-> passed, totalTests |-> 1, passedTests |-> IF passed THEN 1 ELSE 0,
     failedTests |-> IF passed THEN 0 ELSE 1, triggeredBy |-> role]

CallerTestResults == {TestResultOf(p, "qa") : p \in BOOLEAN}

CallerUpdates ==
    {[filesCreated |-> fc, filesModified |-> NotGiven, testsCreated |-> NotGiven] :
        fc \in {NotGiven, Given(<<>>)}}

\* A manager operation called directly on a ParralelContextManager that has no
\* listener attached.
Apply(op, done) ==
    /\ ctx' = done.context
    /\ emitted' = done.events
    /\ specHistory' = IF op = "reset" THEN {done.context.specStatus}
                      ELSE specHistory \cup {done.context.specStatus}
    /\ UNCHANGED outsideCtx

\* A manager as its constructor leaves it.
NewManager(n) ==
    /\ ctx = createParralelContext(n)
    /\ emitted = <<>>
    /\ specHistory = {"draft"}

CtxUpdateSpec ==
    \E content \in SpecContents, newStatus \in SpecStatus \cup {"none"} :
        Apply("updateSpec", updateSpec(ctx, content, newStatus))

CtxSetSpecPath == \E path \in SpecPaths : Apply("setSpecPath", setSpecPath(ctx, path))

CtxFreezeSpec == Apply("freezeSpec", freezeSpec(ctx))

CtxLockSpec == Apply("lockSpec", lockSpec(ctx))

CtxAddTestResult ==
    /\ Len(ctx.testResults) < MaxResults
    /\ \E r \in CallerTestResults : Apply("addTestResult", addTestResult(ctx, r))

CtxUpdateImplementation ==
    \E u \in CallerUpdates, by \in Roles :
        Apply("updateImplementation", updateImplementation(ctx, u, by))

CtxAddCreatedFile == \E f \in CodeFiles : Apply("addCreatedFile", addCreatedFile(ctx, f))

CtxAddTestFile == \E f \in TestFiles : Apply("addTestFile", addTestFile(ctx, f))

CtxIncrementIteration ==
    /\ ctx.iteration < ctx.maxIterations + IterOver
    /\ Apply("incrementIteration", incrementIteration(ctx))

CtxStartWorkflow == Apply("startWorkflow", startWorkflow(ctx))

CtxPauseWorkflow == Apply("pauseWorkflow", pauseWorkflow(ctx))

CtxResumeWorkflow == Apply("resumeWorkflow", resumeWorkflow(ctx))

CtxCompleteWorkflow == Apply("completeWorkflow", completeWorkflow(ctx))

CtxReset == Apply("reset", resetContext(ctx))

NextCtx ==
    \/ CtxUpdateSpec \/ CtxSetSpecPath \/ CtxFreezeSpec \/ CtxLockSpec
    \/ CtxAddTestResult \/ CtxUpdateImplementation \/ CtxAddCreatedFile
    \/ CtxAddTestFile \/ CtxIncrementIteration \/ CtxStartWorkflow
    \/ CtxPauseWorkflow \/ CtxResumeWorkflow \/ CtxCompleteWorkflow \/ CtxReset

\* Order of the spec statuses: draft, then frozen, then locked.
StatusRank(specStatus) ==
    CASE specStatus = "draft" -> 0 [] specStatus = "frozen" -> 1 [] specStatus = "locked" -> 2

\* C9: updateSpec, freezeSpec and lockSpec never move specStatus backward in
\* the order draft, frozen, locked.
C9_SpecStatusOnlyForward ==
    [][(CtxUpdateSpec \/ CtxFreezeSpec \/ CtxLockSpec)
       => StatusRank(ctx'.specStatus) >= StatusRank(ctx.specStatus)]_vars

\* C10: a locked spec was frozen at some earlier point of the same workflow run.
C10_LockedWasFrozen == ctx.specStatus = "locked" => "frozen" \in specHistory


\* The number of times an event occurs in a sequence of emitted events.
Count(events, name) == Cardinality({i \in DOMAIN events : events[i] = name})

\* C23: each of the first maxIterations calls of incrementIteration (those made
\* with iteration below maxIterations) emits workflow:paused once if it makes
\* iteration equal to maxIterations and not at all otherwise.
C23_PausedOnceAtMax ==
    [][(CtxIncrementIteration /\ ctx.iteration < ctx.maxIterations)
       => /\ ctx'.iteration = ctx.iteration + 1
          /\ Count(emitted', "workflow:paused") =
                IF ctx'.iteration = ctx'.maxIterations THEN 1 ELSE 0]_vars

\* C23 witness: the second of two calls has made iteration equal to
\* maxIterations 2 and emitted workflow:paused.
C23_Witness ==
    /\ ctx.maxIterations = 2
    /\ ctx.iteration = ctx.maxIterations
    /\ emitted = <<"workflow:paused", "state:changed">>

\* No element occurs twice in the array.
NoDuplicate(arr) == \A i, j \in DOMAIN arr : arr[i] = arr[j] => i = j

\* C24: addCreatedFile and addTestFile with a tracked path change nothing and
\* emit nothing; they never add a duplicate; and a second call with the same
\* path leaves the context of the first.
C24_AddFileIsIdempotent ==
    [][/\ \A f \in CodeFiles :
            (CtxAddCreatedFile /\ ctx' = addCreatedFile(ctx, f).context)
            => /\ Includes(ctx.implementationStatus.filesCreated, f)
                  => (ctx' = ctx /\ emitted' = <<>>)
               /\ NoDuplicate(ctx.implementationStatus.filesCreated)
                  => NoDuplicate(ctx'.implementationStatus.filesCreated)
               /\ Includes(ctx'.implementationStatus.filesCreated, f)
               /\ addCreatedFile(ctx', f).context = ctx'
       /\ \A f \in TestFiles :
            (CtxAddTestFile /\ ctx' = addTestFile(ctx, f).context)
            => /\ Includes(ctx.implementationStatus.testsCreated, f)
                  => (ctx' = ctx /\ emitted' = <<>>)
               /\ NoDuplicate(ctx.implementationStatus.testsCreated)
                  => NoDuplicate(ctx'.implementationStatus.testsCreated)
               /\ Includes(ctx'.implementationStatus.testsCreated, f)
               /\ addTestFile(ctx', f).context = ctx']_vars

\* C24 witness: addCreatedFile has been called with the path already tracked
\* (the last operation emitted nothing and no test file is tracked).
C24_Witness ==
    /\ ctx.implementationStatus.filesCreated = <<"a.ts">>
    /\ ctx.implementationStatus.testsCreated = <<>>
    /\ emitted = <<>>

\* The array `old` is a prefix of the array `new`.
IsPrefix(old, new) == Len(old) <= Len(new) /\ SubSeq(new, 1, Len(old)) = old

\* C25: no manager operation other than reset() removes a path from
\* filesCreated or testsCreated, and testResults changes only by appending.
C25_TrackedOnlyGrow ==
    [][~CtxReset
       => /\ \A f \in CodeFiles :
                Includes(ctx.implementationStatus.filesCreated, f)
                => Includes(ctx'.implementationStatus.filesCreated, f)
          /\ \A f \in TestFiles :
                Includes(ctx.implementationStatus.testsCreated, f)
                => Includes(ctx'.implementationStatus.testsCreated, f)
          /\ IsPrefix(ctx.testResults, ctx'.testResults)]_vars

\* C29: lockSpec() on a frozen spec leaves it locked, and updateSpec(content)
\* without a status on a locked spec sets specContent to content and leaves
\* specStatus locked.
C29_LockedSpecStillUpdates ==
    [][/\ (CtxLockSpec /\ ctx.specStatus = "frozen") => ctx'.specStatus = "locked"
       /\ \A content \in SpecContents :
            (ctx.specStatus = "locked"
             /\ Apply("updateSpec", updateSpec(ctx, content, "none")))
            => /\ ctx'.specContent = content
               /\ ctx'.specStatus = "locked"
               /\ [ctx' EXCEPT !.specContent = ctx.specContent] = ctx]_vars

\* C29 witness: a spec that was frozen and then locked has had its content
\* replaced.
C29_Witness ==
    /\ ctx.specStatus = "locked"
    /\ specHistory = {"draft", "frozen", "locked"}
    /\ ctx.specContent = "spec text"
    /\ emitted = <<"spec:updated", "state:changed">>

\* C35: a call of incrementIteration emits workflow:paused if and only if it
\* leaves iteration equal to maxIterations; a call that leaves iteration below
\* or above maxIterations emits none.
C35_PausedOnlyAtMax ==
    [][CtxIncrementIteration
       => (Count(emitted', "workflow:paused") > 0
           <=> ctx'.iteration = ctx'.maxIterations)]_vars

-----------------------------------------------------------------------------
(* Snapshots: what getContext() returns and the manager still shares       *)

\* Bound of the model: a holder pushes onto an array shorter than this.
MaxPushed == 1

\* The objects a snapshot can share with the manager's context: the testResults
\* array, the implementationStatus object, and the arrays that object refers to.
SharedParts == {"testResults", "implementationStatus", "filesCreated", "testsCreated"}

\* No snapshot taken yet.
NoSnapshot ==
    [taken |-> FALSE, context |-> createParralelContext(CtxMaxIterations), shares |-> {}]

\* getContext(): `{ ...this.context }` copies the fields of the context; the
\* arrays and the implementationStatus object the fields refer to are the
\* manager's own.
getContext(c) == [taken |-> TRUE, context |-> c, shares |-> SharedParts]

\* The objects a manager operation replaces by new ones: reset() builds a new
\* context, updateImplementation a new implementationStatus object holding the
\* arrays of the old one except those given in `updates`.
Replaced(op, updates) ==
    CASE op = "reset" -> SharedParts
      [] op = "updateImplementation" ->
            {"implementationStatus"}
            \cup (IF updates.filesCreated.given THEN {"filesCreated"} ELSE {})
            \cup (IF updates.testsCreated.given THEN {"testsCreated"} ELSE {})
      [] OTHER -> {}

\* What a snapshot holds once the manager's context has become c: the parts it
\* still shares read as the manager's, the others as they were.
Seen(snap, shares, c) ==
    [taken |-> snap.taken,
     shares |-> shares,
     context |->
        [snap.context EXCEPT
            !.testResults = IF "testResults" \in shares THEN c.testResults ELSE @,
            !.implementationStatus =
                [filesCreated |-> IF "filesCreated" \in shares
                                  THEN c.implementationStatus.filesCreated
                                  ELSE @.filesCreated,
                 testsCreated |-> IF "testsCreated" \in shares
                                  THEN c.implementationStatus.testsCreated
                                  ELSE @.testsCreated,
                 filesModified |-> IF "implementationStatus" \in shares
                                   THEN c.implementationStatus.filesModified
                                   ELSE @.filesModified,
                 lastActivity |-> IF "implementationStatus" \in shares
                                  THEN c.implementationStatus.lastActivity
                                  ELSE @.lastActivity]]]

\* A manager operation called while a snapshot may be held.
ApplyShared(op, updates, done) ==
    /\ ctx' = done.context
    /\ emitted' = done.events
    /\ specHistory' = IF op = "reset" THEN {done.context.specStatus}
                      ELSE specHistory \cup {done.context.specStatus}
    /\ holder' = Seen(holder, holder.shares \ Replaced(op, updates), done.context)
    /\ UNCHANGED outsideSnapshot

\* A holder pushes onto an array of its snapshot: the manager's context reads
\* the same array if the snapshot still shares it.
Pushed(part, c) ==
    /\ holder' = [holder EXCEPT !.context = c]
    /\ ctx' = Seen([context |-> ctx, taken |-> TRUE], holder.shares \cap {part}, c).context
    /\ UNCHANGED <<emitted, specHistory, outsideSnapshot>>

\* const snapshot = manager.getContext()
SnapGetContext ==
    /\ holder' = getContext(ctx)
    /\ UNCHANGED <<ctxVars, outsideSnapshot>>

SnapUpdateSpec ==
    \E content \in SpecContents :
        ApplyShared("updateSpec", NotGiven, updateSpec(ctx, content, "none"))

SnapAddTestResult ==
    /\ Len(ctx.testResults) < MaxResults
    /\ \E r \in CallerTestResults :
          ApplyShared("addTestResult", NotGiven, addTestResult(ctx, r))

SnapUpdateImplementation ==
    \E u \in CallerUpdates, by \in Roles :
        ApplyShared("updateImplementation", u, updateImplementation(ctx, u, by))

SnapAddCreatedFile ==
    \E f \in CodeFiles : ApplyShared("addCreatedFile", NotGiven, addCreatedFile(ctx, f))

SnapAddTestFile ==
    \E f \in TestFiles : ApplyShared("addTestFile", NotGiven, addTestFile(ctx, f))

SnapReset == ApplyShared("reset", NotGiven, resetContext(ctx))

\* snapshot.testResults.push(result)
HolderPushTestResult ==
    /\ holder.taken
    /\ Len(holder.context.testResults) < MaxPushed
    /\ \E r \in CallerTestResults :
          Pushed("testResults", [holder.context EXCEPT !.testResults = Append(@, r)])

\* snapshot.implementationStatus.filesCreated.push(file)
HolderPushCreatedFile ==
    /\ holder.taken
    /\ Len(holder.context.implementationStatus.filesCreated) < MaxPushed
    /\ \E f \in CodeFiles :
          Pushed("filesCreated",
                 [holder.context EXCEPT !.implementationStatus.filesCreated = Append(@, f)])

\* snapshot.implementationStatus.testsCreated.push(file)
HolderPushTestFile ==
    /\ holder.taken
    /\ Len(holder.context.implementationStatus.testsCreated) < MaxPushed
    /\ \E f \in TestFiles :
          Pushed("testsCreated",
                 [holder.context EXCEPT !.implementationStatus.testsCreated = Append(@, f)])

NextSnapshot ==
    \/ SnapGetContext \/ SnapUpdateSpec \/ SnapAddTestResult \/ SnapUpdateImplementation
    \/ SnapAddCreatedFile \/ SnapAddTestFile \/ SnapReset
    \/ HolderPushTestResult \/ HolderPushCreatedFile \/ HolderPushTestFile

\* C21: a push onto an array of a snapshot leaves the manager's context as it
\* was, and a manager operation leaves a snapshot taken earlier as it was.
C21_SnapshotIsACopy ==
    [][/\ (HolderPushTestResult \/ HolderPushCreatedFile \/ HolderPushTestFile)
          => ctx' = ctx
       /\ (holder.taken
           /\ (SnapUpdateSpec \/ SnapAddTestResult \/ SnapUpdateImplementation
               \/ SnapAddCreatedFile \/ SnapAddTestFile \/ SnapReset))
          => holder'.context = holder.context]_vars

-----------------------------------------------------------------------------
(* Decision policy: AgentSession.decideNextAction                          *)

AgentSessionStatus == {"idle", "thinking", "executing", "waiting", "completed", "error"}

\* A session as far as the policy and the coordinator read it.
Session(sessionStatus, isAborted) == [status |-> sessionStatus, isAborted |-> isAborted]

\* An AgentAction; a field the code leaves out is "undefined".
AgentAction(type, description, targetFile, command) ==
    [type |-> type, description |-> description, targetFile |-> targetFile,
     content |-> "undefined", command |-> command]

\* decideNextAction returning null
NullAction == AgentAction("null", "undefined", "undefined", "undefined")

\* !value for a string that may be null or undefined
Falsy(value) == value \in {"null", "undefined", ""}

decideQAAction(c) ==
    IF Falsy(c.specContent)
    THEN AgentAction("write_spec", "Generate SPEC.md document", "specs/SPEC.md", "undefined")
    ELSE IF c.specStatus = "frozen" /\ Len(c.implementationStatus.testsCreated) = 0
    THEN AgentAction("write_test", "Write test cases based on SPEC", "undefined", "undefined")
    ELSE IF Len(c.implementationStatus.filesCreated) > 0
    THEN AgentAction("run_test", "Run test suite", "undefined", "npm test")
    ELSE NullAction

WriteCode == AgentAction("write_code", "Implement features to pass tests", "undefined", "undefined")

\* decideDevAction without the test on the latest result
decideDevAction_IgnoresLastTest(c) ==
    IF Falsy(c.specContent) \/ c.specStatus = "draft"
    THEN NullAction
    ELSE IF c.specStatus = "frozen" \/ c.specStatus = "locked"
    THEN WriteCode
    ELSE NullAction

decideDevAction(c) ==
    IF Falsy(c.specContent) \/ c.specStatus = "draft"
    THEN NullAction
    ELSE IF c.specStatus = "frozen" \/ c.specStatus = "locked"
    THEN IF Len(c.testResults) = 0 \/ ~c.testResults[Len(c.testResults)].passed
         THEN WriteCode
         ELSE NullAction
    ELSE NullAction

\* decideNextAction without the test on the status executing
decideNextAction_WhileExecuting(session, role, c) ==
    IF session.isAborted
    THEN NullAction
    ELSE IF role = "qa" THEN decideQAAction(c) ELSE decideDevAction(c)

\* decideNextAction applying QA's policy to both roles
decideNextAction_DevAsQA(session, role, c) ==
    IF session.isAborted \/ session.status = "executing"
    THEN NullAction
    ELSE decideQAAction(c)

decideNextAction(session, role, c) ==
    IF session.isAborted \/ session.status = "executing"
    THEN NullAction
    ELSE IF role = "qa" THEN decideQAAction(c) ELSE decideDevAction(c)

\* The contexts and sessions the policy is applied to.
ProbeResults ==
    UNION {[1..n -> {TestResultOf(p, "qa") : p \in BOOLEAN}] : n \in 0..MaxResults}

ProbeContexts ==
    {[createParralelContext(CtxMaxIterations) EXCEPT
        !.specContent = content, !.specStatus = specStatus, !.testResults = results,
        !.implementationStatus.filesCreated = files,
        !.implementationStatus.testsCreated = tests] :
        content \in SpecContents \cup {"null"}, specStatus \in SpecStatus,
        results \in ProbeResults,
        files \in {<<>>} \cup {<<f>> : f \in CodeFiles},
        tests \in {<<>>} \cup {<<f>> : f \in TestFiles}}

\* No call of decideNextAction made yet.
NoProbe == [called |-> FALSE, role |-> "qa", session |-> Session("idle", FALSE),
            context |-> createParralelContext(CtxMaxIterations), action |-> NullAction]

ProbeInputs ==
    {[NoProbe EXCEPT !.role = role, !.session = Session(sessionStatus, isAborted),
                     !.context = c] :
        role \in Roles, sessionStatus \in {"idle", "thinking", "executing"},
        isAborted \in BOOLEAN, c \in ProbeContexts}

\* session.decideNextAction(context) is called and returns.
Decide ==
    /\ ~probe.called
    /\ probe' = [probe EXCEPT !.called = TRUE,
                              !.action = decideNextAction(probe.session, probe.role,
                                                          probe.context)]
    /\ UNCHANGED outsideDecide

NextDecide == Decide

\* The latest test result of a context is absent or failed.
LastTestAbsentOrFailed(c) ==
    Len(c.testResults) = 0 \/ ~c.testResults[Len(c.testResults)].passed

\* C4: Dev's decideNextAction returns null when specStatus is draft or the spec
\* content is absent; whatever it returns that is not null is write_code, and
\* then specStatus is frozen or locked and the latest test result is absent or
\* failed.
C4_DevPolicy ==
    (probe.called /\ probe.role = "dev") =>
        /\ (probe.context.specStatus = "draft" \/ Falsy(probe.context.specContent))
              => probe.action = NullAction
        /\ probe.action # NullAction =>
              /\ probe.action.type = "write_code"
              /\ probe.context.specStatus \in {"frozen", "locked"}
              /\ LastTestAbsentOrFailed(probe.context)

C4_Witness ==
    /\ probe.called
    /\ probe.role = "dev"
    /\ probe.action.type = "write_code"
    /\ probe.context.specStatus = "locked"
    /\ Len(probe.context.testResults) > 0

\* What C5 says of write_test and run_test, and of anything else returned.
QAOnlyWhen ==
    /\ probe.action.type \in {"null", "write_spec", "write_test", "run_test"}
    /\ probe.action.type = "write_test" =>
          /\ probe.context.specStatus = "frozen"
          /\ Len(probe.context.implementationStatus.testsCreated) = 0
    /\ probe.action.type = "run_test" =>
          Len(probe.context.implementationStatus.filesCreated) > 0

\* C5 as stated: for every context the QA session's decideNextAction returns
\* write_spec exactly when no spec content exists, write_test only when
\* specStatus is frozen and no test file is tracked, run_test only when a
\* created file is tracked, and null otherwise.
C5_QAPolicy ==
    (probe.called /\ probe.role = "qa") =>
        /\ probe.action.type = "write_spec" <=> Falsy(probe.context.specContent)
        /\ QAOnlyWhen

\* C5 amended: write_spec is returned exactly when no spec content exists by
\* a QA session that is neither aborted nor executing; an aborted or executing
\* session returns null whatever the context; the rest is as stated.
C5_QAPolicyOfReadySession ==
    (probe.called /\ probe.role = "qa") =>
        /\ IF probe.session.isAborted \/ probe.session.status = "executing"
           THEN probe.action = NullAction
           ELSE probe.action.type = "write_spec" <=> Falsy(probe.context.specContent)
        /\ QAOnlyWhen

C5_Witness ==
    /\ probe.called
    /\ probe.role = "qa"
    /\ probe.session = Session("thinking", FALSE)
    /\ probe.context.specContent = ""
    /\ probe.context.specStatus = "frozen"
    /\ probe.action.type = "write_spec"

\* C20: decideNextAction returns null for a session that is executing,
\* thinking or aborted, whatever the role and the context.
C20_NullUnlessReady ==
    (probe.called /\ (probe.session.status \in {"executing", "thinking"}
                      \/ probe.session.isAborted))
    => probe.action = NullAction

-----------------------------------------------------------------------------
(* Parallel coordinator: ParralelOrchestrator and its two AgentSessions    *)

ParralelOrchestratorStatus ==
    {"idle", "initializing", "running", "paused", "completed", "error"}

\* Bounds of the model.
MaxCalls == 1    \* async calls of the coordinator suspended at the same time
MaxTicks == 2    \* ticks suspended on tool executions at the same time
StackDepth == 3  \* nested calls the call stack has room for

\* qaSession and devSession are created together and set to null together,
\* with contextManager.
NullSession == Session("null", FALSE)
NullSessions == [r \in Roles |-> NullSession]

\* A call suspended at `await session.sendMessage(..)`.  stale: the awaited
\* session is no longer the coordinator's.
Call(kind, awaiting) == [kind |-> kind, awaiting |-> awaiting, stale |-> FALSE]

\* A tick suspended at `await Promise.all(actionPromises)` (phase "actions",
\* pending: the roles whose executeTool has not settled) or at
\* `await askApproval(..)` (phase "approval").
Tick(pending, actions) ==
    [phase |-> "actions", pending |-> pending, actions |-> actions, stale |-> FALSE]

Remove(seq, i) == SubSeq(seq, 1, i - 1) \o SubSeq(seq, i + 1, Len(seq))

\* The sessions are replaced or dropped: what is in flight keeps the old ones.
Detach(seq) == [i \in DOMAIN seq |-> [seq[i] EXCEPT !.stale = TRUE]]

\* AgentSession.sendMessage up to `await simulateResponse(..)`: an aborted
\* session throws, any other goes to thinking.
sessionSendMessage(session) ==
    IF session.isAborted
    THEN [threw |-> TRUE, session |-> session]
    ELSE [threw |-> FALSE, session |-> [session EXCEPT !.status = "thinking"]]

\* AgentSession.executeTool up to `await delay(..)`: an aborted session returns
\* at once without success, any other emits action:started and goes to
\* executing.
executeToolStart(session) ==
    IF session.isAborted
    THEN [returned |-> TRUE, success |-> FALSE, session |-> session, events |-> <<>>]
    ELSE [returned |-> FALSE, success |-> TRUE,
          session |-> [session EXCEPT !.status = "executing"],
          events |-> <<"action:started">>]

\* A string as the sequence of its characters, for the strings that reach
\* String.prototype.includes.
Text(str) ==
    CASE str = "Executed: " ->
            <<"E", "x", "e", "c", "u", "t", "e", "d", ":", " ">>
      [] str = "Generate SPEC.md document" ->
            <<"G", "e", "n", "e", "r", "a", "t", "e", " ", "S", "P", "E", "C",
              ".", "m", "d", " ", "d", "o", "c", "u", "m", "e", "n", "t">>
      [] str = "Write test cases based on SPEC" ->
            <<"W", "r", "i", "t", "e", " ", "t", "e", "s", "t", " ", "c", "a",
              "s", "e", "s", " ", "b", "a", "s", "e", "d", " ", "o", "n", " ",
              "S", "P", "E", "C">>
      [] str = "Run test suite" ->
            <<"R", "u", "n", " ", "t", "e", "s", "t", " ", "s", "u", "i", "t",
              "e">>
      [] str = "Implement features to pass tests" ->
            <<"I", "m", "p", "l", "e", "m", "e", "n", "t", " ", "f", "e", "a",
              "t", "u", "r", "e", "s", " ", "t", "o", " ", "p", "a", "s", "s",
              " ", "t", "e", "s", "t", "s">>
      [] str = "undefined" ->
            <<"u", "n", "d", "e", "f", "i", "n", "e", "d">>

\* String.prototype.includes
RECURSIVE includes(_, _)
includes(text, search) ==
    IF Len(text) < Len(search) THEN FALSE
    ELSE IF SubSeq(text, 1, Len(search)) = search THEN TRUE
    ELSE includes(Tail(text), search)

\* executeTool's result for an action of a session that is not aborted
executeTool(action) ==
    [success |-> TRUE,
     output |-> Text("Executed: ") \o Text(action.description),
     affectedFiles |-> IF ~Falsy(action.targetFile) THEN <<action.targetFile>> ELSE <<>>]

\* result.output.includes("passed") that never finds it
IncludesPassed_Never(output) == FALSE

\* result.output.includes("passed")
IncludesPassed(output) == includes(output, <<"p", "a", "s", "s", "e", "d">>)

\* affectedFiles.forEach(file => add(file)), add being addTestFile or addCreatedFile
RECURSIVE forEachFile(_, _, _)
forEachFile(c, files, kind) ==
    IF files = <<>> THEN Done(c, <<>>)
    ELSE LET first == IF kind = "test" THEN addTestFile(c, Head(files))
                      ELSE addCreatedFile(c, Head(files))
             rest == forEachFile(first.context, Tail(files), kind)
         IN Done(rest.context, first.events \o rest.events)

\* updateContextFromAction recording the path of a written spec even without
\* content
updateContextFromAction_PathWithoutContent(c, action, result, role) ==
    IF action.type = "write_spec" /\ result.success /\ ~Falsy(action.targetFile)
    THEN setSpecPath(c, action.targetFile)
    ELSE Done(c, <<>>)

updateContextFromAction(c, action, result, role) ==
    CASE action.type = "write_spec" ->
            IF result.success /\ ~Falsy(action.content)
            THEN LET spec == updateSpec(c, action.content, "draft")
                     path == IF ~Falsy(action.targetFile)
                             THEN setSpecPath(spec.context, action.targetFile)
                             ELSE Done(spec.context, <<>>)
                 IN Done(path.context, spec.events \o path.events)
            ELSE Done(c, <<>>)
      [] action.type = "write_test" ->
            IF result.success THEN forEachFile(c, result.affectedFiles, "test")
            ELSE Done(c, <<>>)
      [] action.type = "run_test" ->
            IF result.success
            THEN addTestResult(c, TestResultOf(IncludesPassed(result.output), role))
            ELSE Done(c, <<>>)
      [] action.type = "write_code" ->
            IF result.success THEN forEachFile(c, result.affectedFiles, "code")
            ELSE Done(c, <<>>)
      [] OTHER -> Done(c, <<>>)

\* The loop fields of the coordinator.  loopInterval: the field holds a timer;
\* live: the interval timers set by setInterval and not cleared since.
LoopState(running, intervals) == [isLoopRunning |-> running, timers |-> intervals]

NoTimers == [loopInterval |-> FALSE, live |-> 0]

\* startParallelLoop without the test on isLoopRunning
startParallelLoop_Unguarded(loop) ==
    LoopState(TRUE, [loopInterval |-> TRUE, live |-> loop.timers.live + 1])

\* startParallelLoop()
startParallelLoop(loop) ==
    IF loop.isLoopRunning THEN loop
    ELSE LoopState(TRUE, [loopInterval |-> TRUE, live |-> loop.timers.live + 1])

\* `if (this.loopInterval) { clearInterval(this.loopInterval); this.loopInterval
\* = null }; this.isLoopRunning = false`, the first lines of pauseWorkflow,
\* completeWorkflow and abort
clearLoopInterval(loop) ==
    LoopState(FALSE,
              [loopInterval |-> FALSE,
               live |-> IF loop.timers.loopInterval THEN loop.timers.live - 1
                        ELSE loop.timers.live])

shouldCheckCompleteness(c, hasManager) ==
    hasManager /\ c.iteration > 0 /\ c.iteration % 3 = 0

\* What a part of the coordinator leaves behind: the context, the events the
\* manager emitted, the coordinator's status and its loop fields.
Left(c, events, st, loop) ==
    [context |-> c, events |-> events, status |-> st,
     isLoopRunning |-> loop.isLoopRunning, timers |-> loop.timers]

LoopOf(left) == LoopState(left.isLoopRunning, left.timers)

\* ParralelOrchestrator.completeWorkflow() with room for `room` more nested
\* calls: the manager's "workflow:completed" is heard by the listener of
\* setupContextListeners, which calls completeWorkflow() again.  threw: the
\* call ended with RangeError (Maximum call stack size exceeded).
RECURSIVE orchestratorCompleteWorkflow(_, _, _, _, _)
orchestratorCompleteWorkflow(c, hasManager, st, loop, room) ==
    IF room = 0
    THEN [left |-> Left(c, <<>>, st, clearLoopInterval(loop)), threw |-> TRUE]
    ELSE IF ~hasManager
    THEN [left |-> Left(c, <<>>, "completed", clearLoopInterval(loop)), threw |-> FALSE]
    ELSE LET done == completeWorkflow(c)
             heard == orchestratorCompleteWorkflow(done.context, hasManager, st,
                                                   clearLoopInterval(loop), room - 1)
         IN IF heard.threw
            THEN [left |-> Left(heard.left.context,
                                <<Head(done.events)>> \o heard.left.events,
                                heard.left.status, LoopOf(heard.left)),
                  threw |-> TRUE]
            ELSE [left |-> Left(heard.left.context,
                                <<Head(done.events)>> \o heard.left.events
                                    \o Tail(done.events),
                                "completed", LoopOf(heard.left)),
                  threw |-> FALSE]

\* contextManager.incrementIteration() as checkWorkflowCompleteness calls it:
\* "workflow:paused" is heard by the listener, which calls pauseWorkflow().
\* Without a manager the call throws and the tick's catch reports it.
incrementIterationHeard(c, hasManager, st, loop) ==
    IF ~hasManager THEN Left(c, <<>>, st, loop)
    ELSE LET done == incrementIteration(c) IN
         IF Includes(done.events, "workflow:paused")
         THEN Left(done.context, done.events, "paused", clearLoopInterval(loop))
         ELSE Left(done.context, done.events, st, loop)

\* executeLoopIteration after `await Promise.all(actionPromises)`.  asks: the
\* tick is suspended at askApproval.
afterActions(c, hasManager, st, loop) ==
    IF ~shouldCheckCompleteness(c, hasManager)
    THEN [left |-> Left(c, <<>>, st, loop), asks |-> FALSE]
    ELSE IF Len(c.testResults) > 0 /\ c.testResults[Len(c.testResults)].passed
            /\ c.specStatus = "locked"
    THEN [left |-> Left(c, <<>>, st, loop), asks |-> TRUE]
    ELSE [left |-> incrementIterationHeard(c, hasManager, st, loop), asks |-> FALSE]

\* checkWorkflowCompleteness after `await askApproval(..)`
afterApproval(c, hasManager, st, loop, shouldComplete) ==
    IF shouldComplete
    THEN LET completed == orchestratorCompleteWorkflow(c, hasManager, st, loop, StackDepth) IN
         IF completed.threw THEN completed.left
         ELSE incrementIterationHeard(completed.left.context, hasManager,
                                      completed.left.status, LoopOf(completed.left))
    ELSE incrementIterationHeard(c, hasManager, st, loop)

\* The coordinator as its constructor leaves it.
NewParralelOrchestrator ==
    /\ status = "idle"
    /\ sessions = NullSessions
    /\ isLoopRunning = FALSE
    /\ timers = NoTimers
    /\ calls = <<>>
    /\ ticks = <<>>

\* The manager's part of a step of the coordinator.
Manager(left) ==
    /\ ctx' = left.context
    /\ emitted' = left.events
    /\ specHistory' = specHistory \cup {left.context.specStatus}

HasManager == sessions # NullSessions

\* The loop fields as they are.
Loop == LoopState(isLoopRunning, timers)

\* The loop fields a step leaves.
SetLoop(loop) ==
    /\ isLoopRunning' = loop.isLoopRunning
    /\ timers' = loop.timers

startParralelMode ==
    /\ status = "idle"
    /\ Len(calls) < MaxCalls
    /\ LET started == startWorkflow(createParralelContext(ctx.maxIterations)) IN
          /\ ctx' = started.context
          /\ emitted' = started.events
    /\ specHistory' = {"draft"}
    /\ sessions' = [qa |-> Session("thinking", FALSE), dev |-> Session("idle", FALSE)]
    /\ status' = "running"
    /\ calls' = Append(Detach(calls), Call("startParralelMode", "qa"))
    /\ ticks' = Detach(ticks)
    /\ UNCHANGED <<isLoopRunning, timers, outsidePar>>

\* The sendMessage a suspended call awaits completes (simulateResponse ends)
\* and the call runs on to its next await or to its end.
simulateResponse ==
    \E i \in DOMAIN calls :
        LET call == calls[i]
            settled == IF call.stale \/ sessions[call.awaiting].isAborted
                       THEN sessions
                       ELSE [sessions EXCEPT ![call.awaiting].status = "idle"]
            toDev == call.kind \in {"startParralelMode", "freezeSpec"}
                        /\ call.awaiting = "qa"
            \* devSession.sendMessage(..) is called and does not throw
            sends == toDev /\ settled # NullSessions
                        /\ ~sessionSendMessage(settled.dev).threw
            \* startParralelMode catches what the call throws (devSession is
            \* null, or aborted); freezeSpec skips a null devSession and lets
            \* the throw of an aborted one reach its caller
            caught == call.kind = "startParralelMode" /\ toDev /\ ~sends
        IN
        /\ sessions' = IF sends
                       THEN [settled EXCEPT !.dev = sessionSendMessage(settled.dev).session]
                       ELSE settled
        /\ calls' = IF sends THEN [calls EXCEPT ![i] = Call(call.kind, "dev")]
                    ELSE Remove(calls, i)
        /\ status' = IF caught THEN "error" ELSE status
        /\ SetLoop(IF call.kind = "startParralelMode" /\ ~toDev
                   THEN startParallelLoop(Loop) ELSE Loop)
        /\ UNCHANGED <<ticks, ctxVars, outsidePar>>

sendMessageToAgent ==
    \E role \in Roles :
        /\ HasManager
        /\ ~sessionSendMessage(sessions[role]).threw
        /\ Len(calls) < MaxCalls
        /\ sessions' = [sessions EXCEPT ![role] = sessionSendMessage(sessions[role]).session]
        /\ calls' = Append(calls, Call("sendMessageToAgent", role))
        /\ UNCHANGED <<status, isLoopRunning, timers, ticks, ctxVars, outsidePar>>

ParFreezeSpec ==
    /\ HasManager
    /\ sessionSendMessage(sessions.qa).threw \/ Len(calls) < MaxCalls
    /\ Manager(Left(freezeSpec(ctx).context, freezeSpec(ctx).events, status, Loop))
    /\ sessions' = [sessions EXCEPT !.qa = sessionSendMessage(sessions.qa).session]
    /\ calls' = IF sessionSendMessage(sessions.qa).threw THEN calls
                ELSE Append(calls, Call("freezeSpec", "qa"))
    /\ UNCHANGED <<status, isLoopRunning, timers, ticks, outsidePar>>

ParLockSpec ==
    /\ HasManager
    /\ Manager(Left(lockSpec(ctx).context, lockSpec(ctx).events, status, Loop))
    /\ UNCHANGED <<parVars, outsidePar>>

ParPauseWorkflow ==
    /\ SetLoop(clearLoopInterval(Loop))
    /\ status' = "paused"
    /\ UNCHANGED <<sessions, calls, ticks, ctxVars, outsidePar>>

ParResumeWorkflow ==
    /\ status = "paused"
    /\ IF HasManager
       THEN Manager(Left(resumeWorkflow(ctx).context, resumeWorkflow(ctx).events,
                         status, Loop))
       ELSE UNCHANGED ctxVars
    /\ status' = "running"
    /\ SetLoop(startParallelLoop(Loop))
    /\ UNCHANGED <<sessions, calls, ticks, outsidePar>>

ParCompleteWorkflow ==
    LET completed == orchestratorCompleteWorkflow(ctx, HasManager, status, Loop, StackDepth) IN
    /\ Manager(completed.left)
    /\ status' = completed.left.status
    /\ SetLoop(LoopOf(completed.left))
    /\ UNCHANGED <<sessions, calls, ticks, outsidePar>>

\* abort() that leaves the sessions alone
ParAbort_SparesSessions ==
    /\ SetLoop(clearLoopInterval(Loop))
    /\ status' = "idle"
    /\ UNCHANGED <<sessions, calls, ticks, ctxVars, outsidePar>>

ParAbort ==
    /\ SetLoop(clearLoopInterval(Loop))
    /\ sessions' = IF HasManager THEN [r \in Roles |-> Session("idle", TRUE)] ELSE sessions
    /\ status' = "idle"
    /\ UNCHANGED <<calls, ticks, ctxVars, outsidePar>>

ParReset ==
    /\ SetLoop(clearLoopInterval(Loop))
    /\ sessions' = NullSessions
    /\ IF HasManager
       THEN /\ ctx' = resetContext(ctx).context
            /\ emitted' = resetContext(ctx).events
            /\ specHistory' = {"draft"}
       ELSE UNCHANGED ctxVars
    /\ calls' = Detach(calls)
    /\ ticks' = Detach(ticks)
    /\ status' = "idle"
    /\ UNCHANGED outsidePar

\* decideActions with Dev deciding on the context QA's result is folded into
decideActions_DevAfterQA(sess, snapshot) ==
    LET qa == IF sess.qa.status = "idle"
              THEN decideNextAction(sess.qa, "qa", snapshot) ELSE NullAction
        seen == IF qa = NullAction THEN snapshot
                ELSE updateContextFromAction(snapshot, qa, executeTool(qa), "qa").context
    IN [qa |-> qa,
        dev |-> IF sess.dev.status = "idle"
                THEN decideNextAction(sess.dev, "dev", seen) ELSE NullAction]

\* The decisions of a tick: `const context = this.contextManager.getContext()`
\* and decideNextAction(context) of each session that is idle.
decideActions(sess, snapshot) ==
    [r \in Roles |->
        IF sess[r].status = "idle"
        THEN decideNextAction(sess[r], r, snapshot)
        ELSE NullAction]

\* The interval timer fires: the callback and executeLoopIteration up to its
\* first await that a timer or a caller can get ahead of.
executeLoopIteration ==
    /\ timers.live > 0
    /\ status = "running"
    /\ HasManager
    /\ sessions.qa.status = "idle" \/ sessions.dev.status = "idle"
    /\ LET snapshot == ctx
           action == decideActions(sessions, snapshot)
           acting == {r \in Roles : action[r] # NullAction /\ sessions[r].status = "idle"}
           \* executeTool of an aborted session returns at once, without success
           executing == {r \in acting : ~executeToolStart(sessions[r]).returned}
           after == afterActions(ctx, HasManager, status, Loop)
       IN
       IF executing # {}
       THEN /\ Len(ticks) < MaxTicks
            /\ sessions' = [r \in Roles |->
                              IF r \in acting
                              THEN executeToolStart(sessions[r]).session
                              ELSE sessions[r]]
            /\ ticks' = Append(ticks, Tick(executing, action))
            /\ UNCHANGED <<status, isLoopRunning, timers, calls, ctxVars, outsidePar>>
       ELSE /\ Manager(after.left)
            /\ status' = after.left.status
            /\ SetLoop(LoopOf(after.left))
            /\ ticks' = IF after.asks
                        THEN Append(ticks, [Tick({}, action) EXCEPT !.phase = "approval"])
                        ELSE ticks
            /\ UNCHANGED <<sessions, calls, outsidePar>>

\* What a suspended tick awaits settles: the executeTool of one of its roles,
\* or askApproval.
tickResume ==
    \E i \in DOMAIN ticks : \E role \in Roles, shouldComplete \in BOOLEAN :
        LET tick == ticks[i]
            settles == tick.phase = "actions"
            folded == IF HasManager
                      THEN updateContextFromAction(ctx, tick.actions[role],
                                                   executeTool(tick.actions[role]), role)
                      ELSE Done(ctx, <<>>)
            last == tick.pending = {role}
            after == afterActions(folded.context, HasManager, status, Loop)
            left == IF ~settles
                    THEN afterApproval(ctx, HasManager, status, Loop, shouldComplete)
                    ELSE IF last
                    THEN Left(after.left.context, folded.events \o after.left.events,
                              after.left.status, LoopOf(after.left))
                    ELSE Left(folded.context, folded.events, status, Loop)
        IN
        /\ IF settles THEN role \in tick.pending /\ shouldComplete
           ELSE role = "qa"
        /\ Len(left.context.testResults) <= MaxResults
        /\ Manager(left)
        /\ status' = left.status
        /\ SetLoop(LoopOf(left))
        /\ sessions' = IF settles /\ ~tick.stale
                       THEN [sessions EXCEPT ![role].status = "idle"]
                       ELSE sessions
        /\ ticks' = IF settles /\ ~last
                    THEN [ticks EXCEPT ![i].pending = @ \ {role}]
                    ELSE IF settles /\ after.asks
                    THEN [ticks EXCEPT ![i].pending = {}, ![i].phase = "approval"]
                    ELSE Remove(ticks, i)
        /\ UNCHANGED <<calls, outsidePar>>

NextPar ==
    \/ startParralelMode \/ simulateResponse \/ sendMessageToAgent
    \/ ParFreezeSpec \/ ParLockSpec \/ ParPauseWorkflow \/ ParResumeWorkflow
    \/ ParCompleteWorkflow \/ ParAbort \/ ParReset
    \/ executeLoopIteration \/ tickResume

\* A holder of a snapshot appends a test result to the array the snapshot
\* shares with the manager: getContext() copies the fields of the context, not
\* the arrays they refer to.
pushTestResult ==
    /\ HasManager
    /\ Len(ctx.testResults) < MaxResults
    /\ \E result \in CallerTestResults :
          ctx' = [ctx EXCEPT !.testResults = Append(@, result)]
    /\ UNCHANGED <<emitted, specHistory, parVars, outsidePar>>

NextParShared == NextPar \/ pushTestResult

\* C3: a tick whose snapshot has specStatus draft or no spec content starts no
\* action of Dev (only QA's, if any), leaves Dev's session as it is and
\* filesCreated unchanged; and filesCreated is empty as long as the spec has
\* been neither frozen nor locked.
C3_DevWaitsForSpec ==
    [][/\ (executeLoopIteration /\ (ctx.specStatus = "draft" \/ Falsy(ctx.specContent)))
          => /\ sessions'.dev = sessions.dev
             /\ \A i \in DOMAIN ticks' :
                   (i > Len(ticks) \/ ticks'[i] # ticks[i]) => ticks'[i].pending \subseteq {"qa"}
             /\ ctx'.implementationStatus.filesCreated = ctx.implementationStatus.filesCreated
       /\ specHistory = {"draft"} => ctx.implementationStatus.filesCreated = <<>>
       /\ specHistory' = {"draft"} => ctx'.implementationStatus.filesCreated = <<>>]_vars

C3_Witness ==
    /\ ctx.specStatus = "draft"
    /\ sessions.dev = Session("idle", FALSE)
    /\ sessions.qa = Session("executing", FALSE)
    /\ \E i \in DOMAIN ticks :
          /\ ~ticks[i].stale
          /\ ticks[i].pending = {"qa"}
          /\ ticks[i].actions.qa.type = "write_spec"
          /\ ticks[i].actions.dev = NullAction

\* A started coordinator is running and its timer is set.
Ticking == HasManager /\ status = "running" /\ isLoopRunning

\* C6: a coordinator does not stay running for ever, its timer firing, with
\* iteration below maxIterations.
C6_ParallelSafetyValve ==
    []<>(~Ticking \/ ctx.iteration >= ctx.maxIterations)

LatestPassedAndLocked ==
    /\ HasManager
    /\ Len(ctx.testResults) > 0
    /\ ctx.testResults[Len(ctx.testResults)].passed
    /\ ctx.specStatus = "locked"

\* C7: when the latest test result has passed and the spec is locked, and the
\* coordinator keeps running with both unchanged, some tick comes to ask for
\* approval.
C7_PassedAndLockedAsksApproval ==
    (Ticking /\ LatestPassedAndLocked)
        ~> \/ \E i \in DOMAIN ticks : ticks[i].phase = "approval"
           \/ ~Ticking
           \/ ~LatestPassedAndLocked

\* C8: completeWorkflow() on a started coordinator leaves the timer stopped,
\* isWorkflowActive false, workflow:completed emitted exactly once and the
\* status completed.
C8_CompleteWorkflowCompletes ==
    [][(HasManager /\ ParCompleteWorkflow)
          => /\ ~isLoopRunning'
             /\ ~ctx'.isWorkflowActive
             /\ Cardinality({i \in DOMAIN emitted' : emitted'[i] = "workflow:completed"}) = 1
             /\ status' = "completed"]_vars

\* C17: abort() clears the timer, sets the status to idle and leaves both
\* sessions aborted and idle, so that sendMessage on them throws and executeTool
\* returns at once without success, status change or action event; no tick
\* runs unless the status is running; and as long as an aborted session is
\* neither replaced nor dropped, no step changes it or adds a call awaiting it.
C17_AbortStopsCoordinator ==
    [][/\ ParAbort
          => /\ ~isLoopRunning'
             /\ status' = "idle"
             /\ HasManager =>
                  \A r \in Roles :
                     LET tool == executeToolStart(sessions'[r]) IN
                     /\ sessions'[r].isAborted
                     /\ sessionSendMessage(sessions'[r]).threw
                     /\ sessionSendMessage(sessions'[r]).session = sessions'[r]
                     /\ tool.returned /\ ~tool.success
                     /\ tool.session = sessions'[r]
                     /\ tool.events = <<>>
       /\ executeLoopIteration => (status = "running" /\ isLoopRunning)
       /\ (HasManager /\ sessions.qa.isAborted /\ sessions.dev.isAborted
           /\ ~startParralelMode /\ ~ParReset)
          => /\ sessions' = sessions
             /\ Len(calls') <= Len(calls)
             /\ \A i \in DOMAIN ticks' : ticks'[i].phase = "actions"
                   => \E j \in DOMAIN ticks : ticks'[i].pending \subseteq ticks[j].pending]_vars

\* C17 witness: abort() has returned while a sendMessage was being answered.
C17_Witness ==
    /\ status = "idle"
    /\ ~isLoopRunning
    /\ sessions = [r \in Roles |-> Session("idle", TRUE)]
    /\ \E i \in DOMAIN calls : ~calls[i].stale

\* The fields of the context that results are folded into.
FoldedFields(c) ==
    <<c.specContent, c.specPath, c.specStatus, c.testResults,
      c.implementationStatus.filesCreated, c.implementationStatus.testsCreated>>

InFlight(role) ==
    {i \in DOMAIN ticks : ~ticks[i].stale /\ ticks[i].phase = "actions"
                          /\ role \in ticks[i].pending}

\* C19: each session has at most one executeTool call in flight.
C19_OneActionPerSession == \A role \in Roles : Cardinality(InFlight(role)) <= 1

\* C33: at most one interval timer is set at any time, and isLoopRunning is
\* true exactly when one is set (which is when loopInterval holds it).
C33_OneLoopTimer ==
    /\ timers.live <= 1
    /\ isLoopRunning <=> timers.live = 1
    /\ isLoopRunning <=> timers.loopInterval

\* C33 witness: the loop was resumed while startParralelMode is still awaiting
\* a session, so that its startParallelLoop() will find the loop running.
C33_Witness ==
    /\ status = "running"
    /\ isLoopRunning
    /\ timers.live = 1
    /\ \E i \in DOMAIN calls : calls[i].kind = "startParralelMode" /\ ~calls[i].stale

\* C40: the context of a started coordinator has isWorkflowActive true exactly
\* when the coordinator's status is running.
C40_ActiveIffRunning ==
    HasManager => (ctx.isWorkflowActive <=> status = "running")

\* C34: executeTool on a session that is not aborted emits action:started and
\* sets the status to executing; as long as the call is in flight and the
\* session is not aborted the status is executing, whatever else is called on
\* the session; and when the call settles the status is idle.
C34_ExecutingWhileInFlight ==
    [][\A r \in Roles :
         /\ (executeLoopIteration /\ Len(ticks') > Len(ticks)
             /\ r \in ticks'[Len(ticks')].pending)
            => /\ executeToolStart(sessions[r]).events = <<"action:started">>
               /\ sessions'[r].status = "executing"
         /\ (InFlight(r) # {} /\ ~sessions[r].isAborted)
            => sessions[r].status = "executing"
         /\ (tickResume /\ sessions'[r] # sessions[r])
            => sessions'[r].status = "idle"]_vars

\* ParralelOrchestrator.getContext(): the manager's snapshot, or null
ParGetContext(hasManager, c) == IF hasManager THEN c ELSE NullContext

\* C22: reset() leaves a context equal to a newly created one with the same
\* maxIterations: the manager's reset(), and what getContext() returns after
\* reset() on a started coordinator and on a started sequential machine.
C22_ResetIsFresh ==
    [][/\ CtxReset => ctx' = createParralelContext(ctx.maxIterations)
       /\ (ParReset /\ HasManager)
          => ParGetContext(sessions' # NullSessions, ctx')
                = createParralelContext(ctx.maxIterations)
       /\ (reset /\ context # NullContext)
          => context' = createCounterfluxContext(context.maxIterations)]_vars

\* C30: when the write_spec that QA's policy proposed settles with success and
\* is folded, specContent is no longer absent, specPath is the action's target
\* file, and QA's policy does not propose write_spec for the context left.
C30_WriteSpecIsFolded ==
    [][(tickResume /\ HasManager /\ Len(ticks) = 1
        /\ ticks[1].phase = "actions" /\ ticks[1].pending = {"qa"} /\ ~ticks[1].stale
        /\ ticks[1].actions.qa.type = "write_spec"
        /\ ~sessions.qa.isAborted)
       => /\ ~Falsy(ctx'.specContent)
          /\ ctx'.specPath = ticks[1].actions.qa.targetFile
          /\ decideQAAction(ctx').type # "write_spec"]_vars

C32_DecisionsShareSnapshot ==
    [][(executeLoopIteration /\ Len(ticks') > Len(ticks))
       => LET tick == ticks'[Len(ticks')] IN
          /\ tick.actions.qa =
                IF sessions.qa.status = "idle" /\ ~sessions.qa.isAborted
                THEN decideQAAction(ctx) ELSE NullAction
          /\ tick.actions.dev =
                IF sessions.dev.status = "idle" /\ ~sessions.dev.isAborted
                THEN decideDevAction(ctx) ELSE NullAction
          /\ ctx' = ctx]_vars

\* C32 witness: a tick has started an action of each session, a test run of
\* QA and an implementation step of Dev.
C32_Witness ==
    \E i \in DOMAIN ticks :
        /\ ticks[i].pending = Roles
        /\ ticks[i].actions.qa.type = "run_test"
        /\ ticks[i].actions.dev.type = "write_code"

-----------------------------------------------------------------------------
(* updateContextFromAction applied to any action and any ToolResult        *)

\* Outputs of a test run.
ThreePassed == <<"3", " ", "p", "a", "s", "s", "e", "d">>
TwoFailed == <<"2", " ", "f", "a", "i", "l", "e", "d">>

\* The actions the decision policy produces.
FoldActions ==
    {AgentAction("write_spec", "Generate SPEC.md document", "specs/SPEC.md", "undefined"),
     AgentAction("write_test", "Write test cases based on SPEC", "undefined", "undefined"),
     AgentAction("run_test", "Run test suite", "undefined", "npm test"),
     WriteCode}

\* ToolResults: those of executeTool (a success with `Executed: ..`, or the
\* failure of an aborted session) and those of a tool layer that reports the
\* output of the run.
ToolResults ==
    {[success |-> success, output |-> output, affectedFiles |-> files] :
        success \in BOOLEAN,
        output \in {<<>>, ThreePassed, TwoFailed} \cup {executeTool(a).output : a \in FoldActions},
        files \in {<<>>} \cup {<<f>> : f \in CodeFiles}}

\* No updateContextFromAction call made yet.
NoFold ==
    [called |-> FALSE, action |-> NullAction, role |-> "qa",
     result |-> [success |-> FALSE, output |-> <<>>, affectedFiles |-> <<>>]]

\* executeAgentAction folds a result: updateContextFromAction(action, result, role)
Fold ==
    \E action \in FoldActions, result \in ToolResults, role \in Roles :
        LET done == updateContextFromAction(ctx, action, result, role) IN
        /\ Len(done.context.testResults) <= MaxResults
        /\ Manager(Left(done.context, done.events, status, Loop))
        /\ lastFold' = [called |-> TRUE, action |-> action, role |-> role, result |-> result]
        /\ UNCHANGED outsideFold

NextFold == Fold

\* The text contains "passed".
ContainsPassed(text) ==
    \E i \in 1..Len(text) :
        i + 5 <= Len(text) /\ SubSeq(text, i, i + 5) = <<"p", "a", "s", "s", "e", "d">>

\* C26: a step that folds (lastFold' holds the arguments of the fold the step
\* made) a successful run_test result appends exactly one TestResult,
\* passed if and only if the output contains "passed" ("3 passed": passed,
\* "2 failed": not passed), triggeredBy the role that executed it.
C26_RunTestFold ==
    [][(lastFold'.called /\ lastFold'.action.type = "run_test" /\ lastFold'.result.success)
       => /\ Len(ctx'.testResults) = Len(ctx.testResults) + 1
          /\ SubSeq(ctx'.testResults, 1, Len(ctx.testResults)) = ctx.testResults
          /\ LET added == ctx'.testResults[Len(ctx'.testResults)] IN
             /\ added.passed <=> ContainsPassed(lastFold'.result.output)
             /\ lastFold'.result.output = ThreePassed => added.passed
             /\ lastFold'.result.output = TwoFailed => ~added.passed
             /\ added.triggeredBy = lastFold'.role]_vars

\* C26 witness: Dev's run_test with output "3 passed" has been folded.
C26_Witness ==
    /\ lastFold.called
    /\ lastFold.action.type = "run_test"
    /\ lastFold.result.success
    /\ lastFold.result.output = ThreePassed
    /\ lastFold.role = "dev"
    /\ ctx.testResults = <<TestResultOf(TRUE, "dev")>>

\* C27: a step that folds a run_test result with success=false appends a
\* TestResult with passed=false.
C27_FailedRunIsRecorded ==
    [][(lastFold'.called /\ lastFold'.action.type = "run_test"
        /\ ~lastFold'.result.success)
       => ctx'.testResults =
            Append(ctx.testResults, TestResultOf(FALSE, lastFold'.role))]_vars

-----------------------------------------------------------------------------
(* Specifications                                                          *)

\* The sequential machine on its own.
InitSeq ==
    /\ NewOrchestrator
    /\ NewManager(CtxMaxIterations)
    /\ NewParralelOrchestrator
    /\ probe = NoProbe
    /\ holder = NoSnapshot
    /\ lastFold = NoFold

SpecSeq == InitSeq /\ [][NextSeq]_vars

\* The sequential machine with handleEvent calls that overlap.
InitOverlap ==
    /\ NewOrchestrator
    /\ NewManager(CtxMaxIterations)
    /\ NewParralelOrchestrator
    /\ probe = NoProbe
    /\ holder = NoSnapshot
    /\ lastFold = NoFold

NextOverlap == NextSeq \/ handleEventDuringAwait \/ resumeSuspended

SpecOverlap == InitOverlap /\ [][NextOverlap]_vars

\* A context manager on its own, its operations called in any order.
InitCtx ==
    /\ \E n \in 1..CtxMaxIterations : NewManager(n)
    /\ NewOrchestrator
    /\ NewParralelOrchestrator
    /\ probe = NoProbe
    /\ holder = NoSnapshot
    /\ lastFold = NoFold

SpecCtx == InitCtx /\ [][NextCtx]_vars

\* decideNextAction applied once to any session and any context.
InitDecide ==
    /\ probe \in ProbeInputs
    /\ holder = NoSnapshot
    /\ lastFold = NoFold
    /\ NewOrchestrator
    /\ NewManager(CtxMaxIterations)
    /\ NewParralelOrchestrator

SpecDecide == InitDecide /\ [][NextDecide]_vars

\* A context manager and the holder of a snapshot of its context.
InitSnapshot ==
    /\ NewManager(CtxMaxIterations)
    /\ NewOrchestrator
    /\ NewParralelOrchestrator
    /\ probe = NoProbe
    /\ holder = NoSnapshot
    /\ lastFold = NoFold

SpecSnapshot == InitSnapshot /\ [][NextSnapshot]_vars

\* updateContextFromAction applied to the context of a manager.
InitFold ==
    /\ NewManager(CtxMaxIterations)
    /\ NewOrchestrator
    /\ NewParralelOrchestrator
    /\ probe = NoProbe
    /\ holder = NoSnapshot
    /\ lastFold = NoFold

SpecFold == InitFold /\ [][NextFold]_vars

\* The parallel coordinator driven through its public operations, its timer
\* and the completions of what it awaits.
InitPar ==
    /\ NewParralelOrchestrator
    /\ NewManager(CtxMaxIterations)
    /\ NewOrchestrator
    /\ probe = NoProbe
    /\ holder = NoSnapshot
    /\ lastFold = NoFold

SpecPar == InitPar /\ [][NextPar]_vars

\* The ticks of a running coordinator, both sessions idle, whose manager holds
\* a context with any spec, test results and tracked files.
InitTick ==
    /\ status = "running"
    /\ sessions = [r \in Roles |-> Session("idle", FALSE)]
    /\ isLoopRunning = TRUE
    /\ timers = [loopInterval |-> TRUE, live |-> 1]
    /\ calls = <<>>
    /\ ticks = <<>>
    /\ ctx \in {[c EXCEPT !.isWorkflowActive = TRUE] : c \in ProbeContexts}
    /\ emitted = <<>>
    /\ specHistory = {ctx.specStatus}
    /\ NewOrchestrator
    /\ probe = NoProbe
    /\ holder = NoSnapshot
    /\ lastFold = NoFold

NextTick == executeLoopIteration \/ tickResume

SpecTick == InitTick /\ [][NextTick]_vars

\* The timer keeps firing and what is awaited completes.
Scheduling ==
    /\ WF_vars(executeLoopIteration)
    /\ WF_vars(tickResume)
    /\ WF_vars(simulateResponse)

FairPar == InitPar /\ [][NextPar]_vars /\ Scheduling

\* The coordinator, and a holder of its snapshots.
FairParShared == InitPar /\ [][NextParShared]_vars /\ Scheduling

====
